---- MODULE Spec2Model ----
\* Verification model of the multi-provider OpenAPI tool server:
\*   src/src/openapi-loader.ts  (OpenAPISpecsLoader, ApiClient)
\*   src/unnamed/part_000       (ToolsManager, ExtendedTool)
\* A JavaScript string is a sequence of one-character strings, a JavaScript
\* object is a function whose DOMAIN is the set of its own keys, and a Map is
\* a sequence of <<key, value>> pairs in insertion order.
EXTENDS Integers, Sequences, FiniteSets, TLC

VARIABLES
    \* one call of abbreviateOperationId: its arguments, its position, its result
    originalId, maxLength, compressPc, name,
    \* ToolsManager.initialize: the specs directory, the position in
    \* loadOpenAPISpecs / initialize, the loop index, the Map of prepared
    \* providers, the registry (this.tools) and the error initialize rejects with
    directory, pc, next, specifications, tools, initError,
    \* the registry reads: the last findTool (its argument and what it
    \* returned) and the last getAllTools (the list it returned)
    found, listed,
    \* one call of ApiClient.executeApiCall: its arguments, its position, the
    \* axios request configuration, the requests sent, the error it throws
    tool, params, callPc, config, requests, error,
    \* the outcome of the HTTP request of that call, and a second call of
    \* executeApiCall on the same descriptor that is in flight with it
    response, other,
    \* one tool id: the method and path it is built from, the id, what
    \* parseToolId makes of it, and the position
    idMethod, idPath, toolId, parsedId, toolIdPc

compressVars == << originalId, maxLength, compressPc, name >>
startupVars == << directory, pc, next, specifications, tools, initError, found, listed >>
dispatchVars == << tool, params, callPc, config, requests, error, response, other >>
toolIdVars == << idMethod, idPath, toolId, parsedId, toolIdPc >>
vars == << compressVars, startupVars, dispatchVars, toolIdVars >>

-----------------------------------------------------------------------------
\* Characters and the string primitives of the language runtime.

LowerSeq ==
    << "a", "b", "c", "d", "e", "f", "g", "h", "i", "j", "k", "l", "m",
       "n", "o", "p", "q", "r", "s", "t", "u", "v", "w", "x", "y", "z" >>

UpperSeq ==
    << "A", "B", "C", "D", "E", "F", "G", "H", "I", "J", "K", "L", "M",
       "N", "O", "P", "Q", "R", "S", "T", "U", "V", "W", "X", "Y", "Z" >>

DigitSeq == << "0", "1", "2", "3", "4", "5", "6", "7", "8", "9" >>

SymbolSeq == << "-", "_", " ", "/", "{", "}", ",", "%", ".", "$" >>

HexSeq == DigitSeq \o << "a", "b", "c", "d", "e", "f" >>

Range(s) == { s[i] : i \in DOMAIN s }

Lower == Range(LowerSeq)
Upper == Range(UpperSeq)
Digit == Range(DigitSeq)
Alnum == Lower \cup Upper \cup Digit
Vowel == { "a", "e", "i", "o", "u", "A", "E", "I", "O", "U" }

CharSeq == LowerSeq \o UpperSeq \o DigitSeq \o SymbolSeq

CharCode == [ c \in Range(CharSeq) |-> CHOOSE i \in DOMAIN CharSeq : CharSeq[i] = c ]

lowerOf == [ c \in Upper |-> LowerSeq[CHOOSE i \in DOMAIN UpperSeq : UpperSeq[i] = c] ]
upperOf == [ c \in Lower |-> UpperSeq[CHOOSE i \in DOMAIN LowerSeq : LowerSeq[i] = c] ]

toLowerCase(s) == [ i \in DOMAIN s |-> IF s[i] \in Upper THEN lowerOf[s[i]] ELSE s[i] ]
toUpperCase(s) == [ i \in DOMAIN s |-> IF s[i] \in Lower THEN upperOf[s[i]] ELSE s[i] ]

\* s.substring(0, n): a negative n counts as 0
substring(s, n) == SubSeq(s, 1, IF n < 0 THEN 0 ELSE IF n > Len(s) THEN Len(s) ELSE n)

\* s.substring(1) / s.slice(1)
rest(s) == SubSeq(s, 2, Len(s))

RECURSIVE Flatten(_)
Flatten(ss) == IF ss = << >> THEN << >> ELSE Head(ss) \o Flatten(Tail(ss))

\* s.replace(/[^...]/g, "-") for a character class given as the set it keeps
replaceOutside(s, keep) == [ i \in DOMAIN s |-> IF s[i] \in keep THEN s[i] ELSE "-" ]

\* s.replace(/-+/g, "-")
collapseHyphens(s) ==
    Flatten([ i \in DOMAIN s |->
        IF s[i] = "-" /\ i > 1 /\ s[i - 1] = "-" THEN << >> ELSE << s[i] >> ])

\* s.replace(/-+$/, "")
RECURSIVE trimTrailingHyphens(_)
trimTrailingHyphens(s) ==
    IF s # << >> /\ s[Len(s)] = "-" THEN trimTrailingHyphens(SubSeq(s, 1, Len(s) - 1)) ELSE s

RECURSIVE trimLeadingHyphens(_)
trimLeadingHyphens(s) ==
    IF s # << >> /\ s[1] = "-" THEN trimLeadingHyphens(Tail(s)) ELSE s

\* s.replace(/^-+|-+$/g, "")
trimHyphens(s) == trimTrailingHyphens(trimLeadingHyphens(s))

\* s.trim() on the one whitespace character of the alphabet
RECURSIVE trim(_)
trim(s) ==
    IF s # << >> /\ s[1] = " " THEN trim(Tail(s))
    ELSE IF s # << >> /\ s[Len(s)] = " " THEN trim(SubSeq(s, 1, Len(s) - 1))
    ELSE s

\* s.split(sep) for a one-character separator
RECURSIVE split(_, _)
split(s, sep) ==
    IF \E i \in DOMAIN s : s[i] = sep
    THEN LET i == CHOOSE j \in DOMAIN s : s[j] = sep /\ \A k \in 1..(j - 1) : s[k] # sep
         IN  << SubSeq(s, 1, i - 1) >> \o split(SubSeq(s, i + 1, Len(s)), sep)
    ELSE << s >>

\* parts.join(sep)
RECURSIVE join(_, _)
join(parts, sep) ==
    IF parts = << >> THEN << >>
    ELSE IF Len(parts) = 1 THEN parts[1]
    ELSE parts[1] \o sep \o join(Tail(parts), sep)

\* s.replace(/(...)/g, " $1"): a space before every index in `at`
insertSpaces(s, at) ==
    Flatten([ i \in DOMAIN s |-> IF i \in at THEN << " ", s[i] >> ELSE << s[i] >> ])

-----------------------------------------------------------------------------
\* Word tables of ./abbreviations.js, which is not among the sources: the
\* entries are the ones the specification gives as examples.

REVISED_COMMON_WORDS_TO_REMOVE ==
    { << "g", "e", "t" >>, << "t", "h", "e" >>, << "a", "p", "i" >> }

WORD_ABBREVIATIONS ==
    ( << "i", "d", "e", "n", "t", "i", "f", "i", "e", "r" >> :> << "i", "d" >> ) @@
    ( << "c", "o", "n", "f", "i", "g", "u", "r", "a", "t", "i", "o", "n" >>
        :> << "c", "o", "n", "f", "i", "g" >> )

-----------------------------------------------------------------------------
\* Identifier compression (OpenAPISpecsLoader.abbreviateOperationId).

DefaultMaxLength == 64

RECURSIVE Sum(_)
Sum(ns) == IF ns = << >> THEN 0 ELSE Head(ns) + Sum(Tail(ns))

\* crypto.createHash("sha256").update(input).digest("hex"): the digest is
\* computed outside the repository; here a fixed function of the input
\* characters and their positions into lower-case hex digits, of which the
\* first eight are kept.
Sha256Hex(input) ==
    [ k \in 1..8 |->
        HexSeq[1 + ((Sum([ i \in DOMAIN input |-> CharCode[input[i]] * (i * k + 1) ])
                     + 3 * k * k + Len(input)) % 16)] ]

generateShortHash(input, length) == SubSeq(Sha256Hex(input), 1, length)

splitCombined(input) ==
    LET spaced(part) ==
            LET s1 == insertSpaces(part,
                        { i \in DOMAIN part :
                            part[i] \in Upper /\ (i = 1 \/ part[i - 1] \notin Upper) })
                s2 == insertSpaces(s1,
                        { i \in DOMAIN s1 :
                            s1[i] \in Upper /\ i < Len(s1) /\ s1[i + 1] \in Lower })
                s3 == insertSpaces(s2,
                        { i \in DOMAIN s2 :
                            i > 1 /\ s2[i] \in Digit /\ s2[i - 1] \in Lower })
            IN  insertSpaces(s3,
                        { i \in DOMAIN s3 :
                            i > 1 /\ s3[i] \in Lower \cup Upper /\ s3[i - 1] \in Digit })
        underscoreParts == split(input, "_")
        combinedParts ==
            Flatten([ i \in DOMAIN underscoreParts |->
                SelectSeq(split(spaced(underscoreParts[i]), " "), LAMBDA p : Len(p) > 0) ])
    IN  SelectSeq([ i \in DOMAIN combinedParts |-> trim(combinedParts[i]) ],
                  LAMBDA p : Len(p) > 0)

\* Only the empty string is taken as blank: the input is not trimmed.
sanitizeWithoutTrim(id, max) ==
    IF Len(id) = 0
    THEN [ currentName |-> << >>, originalWasLong |-> FALSE,
           errorName |-> << "u", "n", "n", "a", "m", "e", "d", "-", "t", "o", "o", "l" >> ]
    ELSE LET currentName ==
                 trimHyphens(collapseHyphens(replaceOutside(id, Alnum \cup { "_" })))
         IN  IF Len(currentName) = 0
             THEN [ currentName |-> << >>, originalWasLong |-> Len(id) > max,
                    errorName |-> << "t", "o", "o", "l", "-" >> \o generateShortHash(id, 8) ]
             ELSE [ currentName |-> currentName, originalWasLong |-> Len(id) > max ]

_initialSanitizeAndValidate(id, max) ==
    IF Len(id) = 0 \/ Len(trim(id)) = 0
    THEN [ currentName |-> << >>, originalWasLong |-> FALSE,
           errorName |-> << "u", "n", "n", "a", "m", "e", "d", "-", "t", "o", "o", "l" >> ]
    ELSE LET originalWasLong == Len(id) > max
             currentName ==
                 trimHyphens(collapseHyphens(replaceOutside(id, Alnum \cup { "_" })))
         IN  IF Len(currentName) = 0
             THEN [ currentName |-> << >>, originalWasLong |-> originalWasLong,
                    errorName |-> << "t", "o", "o", "l", "-" >> \o generateShortHash(id, 8) ]
             ELSE [ currentName |-> currentName, originalWasLong |-> originalWasLong ]

_performSemanticAbbreviation(n) ==
    LET kept == SelectSeq(splitCombined(n),
                    LAMBDA part :
                        trimTrailingHyphens(toLowerCase(part))
                            \notin REVISED_COMMON_WORDS_TO_REMOVE)
        capitalized(abbr) == toUpperCase(SubSeq(abbr, 1, 1)) \o toLowerCase(rest(abbr))
        abbreviate(part) ==
            LET lowerPart == toLowerCase(part)
            IN  IF lowerPart \in DOMAIN WORD_ABBREVIATIONS
                THEN LET abbr == WORD_ABBREVIATIONS[lowerPart]
                     IN  IF Len(part) > 0
                            /\ SubSeq(part, 1, 1) = toUpperCase(SubSeq(part, 1, 1))
                            /\ rest(part) = toLowerCase(rest(part))
                         THEN capitalized(abbr)
                         ELSE IF part = toUpperCase(part) /\ Len(part) > 1 /\ Len(abbr) > 1
                         THEN toUpperCase(abbr)
                         ELSE IF Len(part) > 0
                                 /\ SubSeq(part, 1, 1) = toUpperCase(SubSeq(part, 1, 1))
                         THEN capitalized(abbr)
                         ELSE toLowerCase(abbr)
                ELSE part
    IN  join([ i \in DOMAIN kept |-> abbreviate(kept[i]) ], << "-" >>)

_applyVowelRemovalIfOverLength(n, max) ==
    IF Len(n) > max
    THEN LET currentParts == split(n, "-")
             shorten(part) ==
                 LET isAbbreviation ==
                         \E k \in DOMAIN WORD_ABBREVIATIONS :
                             toLowerCase(WORD_ABBREVIATIONS[k]) = toLowerCase(part)
                     newPart == SubSeq(part, 1, 1)
                                    \o SelectSeq(rest(part), LAMBDA c : c \notin Vowel)
                 IN  IF Len(part) > 5 /\ ~isAbbreviation
                        /\ Len(newPart) < Len(part) /\ Len(newPart) > 1
                     THEN newPart
                     ELSE part
         IN  join([ i \in DOMAIN currentParts |-> shorten(currentParts[i]) ], << "-" >>)
    ELSE n

\* The hash is applied only when the compressed name is still too long: the
\* original-was-long flag is dropped.
truncateIgnoringOriginalLength(n, id, originalWasLong, max) ==
    LET currentName == trimHyphens(collapseHyphens(n))
        hash == generateShortHash(id, 4)
        base == trimTrailingHyphens(substring(currentName, max - Len(hash) - 1))
    IN  IF Len(currentName) > max THEN base \o << "-" >> \o hash ELSE currentName

_truncateAndApplyHashIfNeeded(n, id, originalWasLong, max) ==
    LET currentName == trimHyphens(collapseHyphens(n))
        needsHash == originalWasLong \/ Len(currentName) > max
        hash == generateShortHash(id, 4)
        maxLengthForBase == max - Len(hash) - 1
        base == IF Len(currentName) > maxLengthForBase
                THEN trimTrailingHyphens(substring(currentName, maxLengthForBase))
                ELSE currentName
    IN  IF needsHash THEN base \o << "-" >> \o hash ELSE currentName

\* The name is not lower-cased before it is formatted.
finalizeWithoutLowerCase(n, id, max) ==
    LET formatted == trimHyphens(collapseHyphens(replaceOutside(n, Alnum \cup { "-" })))
        finalName == IF Len(formatted) > max
                     THEN trimTrailingHyphens(substring(formatted, max))
                     ELSE formatted
    IN  IF Len(finalName) = 0
        THEN << "t", "o", "o", "l", "-" >> \o generateShortHash(id, 8)
        ELSE finalName

_finalizeNameFormatting(n, id, max) ==
    LET formatted ==
            trimHyphens(collapseHyphens(
                replaceOutside(toLowerCase(n), Lower \cup Digit \cup { "-" })))
        finalName == IF Len(formatted) > max
                     THEN trimTrailingHyphens(substring(formatted, max))
                     ELSE formatted
    IN  IF Len(finalName) = 0
        THEN << "t", "o", "o", "l", "-" >> \o generateShortHash(id, 8)
        ELSE finalName

abbreviateOperationId(id, max) ==
    LET sanitized == _initialSanitizeAndValidate(id, max)
    IN  IF "errorName" \in DOMAIN sanitized
        THEN sanitized.errorName
        ELSE _finalizeNameFormatting(
                 _truncateAndApplyHashIfNeeded(
                     _applyVowelRemovalIfOverLength(
                         _performSemanticAbbreviation(sanitized.currentName), max),
                     id, sanitized.originalWasLong, max),
                 id, max)

-----------------------------------------------------------------------------
\* Idle values of the four groups of variables.

CompressIdle ==
    /\ originalId = << >> /\ maxLength = DefaultMaxLength
    /\ compressPc = "idle" /\ name = << >>

StartupIdle ==
    /\ directory = << >> /\ pc = "idle" /\ next = 1
    /\ specifications = << >> /\ tools = << >> /\ initError = ""
    /\ found = << >> /\ listed = << >>

DispatchIdle ==
    /\ tool = [ name |-> << >> ] /\ params = << >> /\ callPc = "idle"
    /\ config = [ url |-> << >> ] /\ requests = << >> /\ error = << >>
    /\ response = << >> /\ other = [ callPc |-> "idle" ]

ToolIdIdle ==
    /\ idMethod = << >> /\ idPath = << >> /\ toolId = << >>
    /\ parsedId = << >> /\ toolIdPc = "idle"

-----------------------------------------------------------------------------
\* SpecCompress: abbreviateOperationId applied to one input.

MaxTokens == 3

T_get == << "g", "e", "t" >>
T_Account == << "A", "c", "c", "o", "u", "n", "t" >>
T_Identifier == << "I", "d", "e", "n", "t", "i", "f", "i", "e", "r" >>
T_x1 == << "x", "1" >>

InputTokens == { T_get, T_Account, T_Identifier, T_x1, << "_" >>, << " " >>, << "/" >> }

RECURSIVE Inputs(_)
Inputs(n) ==
    IF n = 0 THEN { << >> }
    ELSE LET shorter == Inputs(n - 1)
         IN  shorter \cup { s \o t : s \in shorter, t \in InputTokens }

MaxLengths == { 0, 3, 4, 5, 8, 12, 13, DefaultMaxLength }

CompressInit ==
    /\ originalId \in Inputs(MaxTokens)
    /\ maxLength \in MaxLengths
    /\ compressPc = "called"
    /\ name = << >>
    /\ StartupIdle /\ DispatchIdle /\ ToolIdIdle

Compress ==
    /\ compressPc = "called"
    /\ name' = abbreviateOperationId(originalId, maxLength)
    /\ compressPc' = "returned"
    /\ UNCHANGED << originalId, maxLength, startupVars, dispatchVars, toolIdVars >>

CompressNext == Compress

SpecCompress == CompressInit /\ [][CompressNext]_vars

-----------------------------------------------------------------------------
\* Claims about the compression pipeline, checked under SpecCompress.

endsWith(s, suffix) ==
    Len(s) >= Len(suffix) /\ SubSeq(s, Len(s) - Len(suffix) + 1, Len(s)) = suffix

\* C3: for every input and every maxLength the result of abbreviateOperationId
\* has at most maxLength characters, the fallbacks "unnamed-tool" and
\* "tool-" + 8 hex characters included.
C3_LengthBound ==
    compressPc = "returned" => Len(name) <= maxLength

\* C7 as stated: whenever the original input is longer than maxLength, the
\* result ends with "-" and the first 4 hex characters of the hash of the
\* original input, and what precedes that suffix has at most maxLength - 5
\* characters.
C7_SuffixAlways ==
    (compressPc = "returned" /\ Len(originalId) > maxLength) =>
        /\ endsWith(name, << "-" >> \o generateShortHash(originalId, 4))
        /\ Len(name) - 5 <= maxLength - 5

\* C7 as amended: when the original input is longer than maxLength, maxLength
\* is at least 5 and the input has a character of [A-Za-z0-9_], the result ends
\* with the first 4 hex characters of the hash of the original input, and what
\* precedes them is either nothing or a base of 1 to maxLength - 5 characters
\* followed by "-".
C7_SuffixWhenNamed ==
    ( /\ compressPc = "returned"
      /\ Len(originalId) > maxLength
      /\ maxLength >= 5
      /\ \E i \in DOMAIN originalId : originalId[i] \in Alnum \cup { "_" } ) =>
        LET hash == generateShortHash(originalId, 4)
        IN  \/ name = hash
            \/ /\ endsWith(name, << "-" >> \o hash)
               /\ Len(name) - 5 \in 1..(maxLength - 5)

\* C7 witness: a long original whose compressed form is shorter than the limit
\* and still carries the suffix after a non-empty base.
C7_Witness ==
    /\ compressPc = "returned"
    /\ Len(originalId) > maxLength
    /\ maxLength >= 5
    /\ Len(name) < maxLength
    /\ Len(name) > 5
    /\ endsWith(name, << "-" >> \o generateShortHash(originalId, 4))

isHex(c) == c \in Digit \cup { "a", "b", "c", "d", "e", "f" }

\* C11: the result of abbreviateOperationId is non-empty and is made of runs
\* of [a-z0-9] separated by single hyphens, with no leading, trailing or
\* doubled hyphen, no underscore and no upper-case character, or it is the
\* fallback "tool-" + 8 hex characters.
C11_Charset ==
    compressPc = "returned" =>
        \/ /\ Len(name) > 0
           /\ \A i \in DOMAIN name : name[i] \in Lower \cup Digit \cup { "-" }
           /\ name[1] # "-"
           /\ name[Len(name)] # "-"
           /\ \A i \in 1..(Len(name) - 1) : ~(name[i] = "-" /\ name[i + 1] = "-")
        \/ /\ Len(name) = 13
           /\ SubSeq(name, 1, 5) = << "t", "o", "o", "l", "-" >>
           /\ \A i \in 6..13 : isHex(name[i])

\* C11 witness: an input with an upper-case letter, an underscore and a symbol
\* whose result has several runs.
C11_Witness ==
    /\ compressPc = "returned"
    /\ \E i \in DOMAIN originalId : originalId[i] \in Upper
    /\ \E i \in DOMAIN originalId : originalId[i] = "_"
    /\ \E i \in DOMAIN originalId : originalId[i] = "/"
    /\ \E i \in DOMAIN name : name[i] = "-"

isBlank(s) == \A i \in DOMAIN s : s[i] = " "

\* C14: abbreviateOperationId returns "unnamed-tool" for the empty string and
\* for every whitespace-only string, and "tool-" + the first 8 hex characters
\* of the hash of the input when the input is not blank and has no character
\* of [A-Za-z0-9_].
C14_Fallbacks ==
    compressPc = "returned" =>
        /\ isBlank(originalId) =>
               name = << "u", "n", "n", "a", "m", "e", "d", "-", "t", "o", "o", "l" >>
        /\ ( /\ ~isBlank(originalId)
             /\ \A i \in DOMAIN originalId : originalId[i] \notin Alnum \cup { "_" } ) =>
               name = << "t", "o", "o", "l", "-" >> \o SubSeq(Sha256Hex(originalId), 1, 8)

\* C14 witness: a whitespace-only input of several characters returned as
\* "unnamed-tool".
C14_Witness ==
    /\ compressPc = "returned"
    /\ Len(originalId) > 1
    /\ isBlank(originalId)
    /\ name = << "u", "n", "n", "a", "m", "e", "d", "-", "t", "o", "o", "l" >>

\* C14 second case reached: a non-blank input of symbols and spaces only.
C14_SymbolsReached ==
    /\ compressPc = "returned"
    /\ ~isBlank(originalId)
    /\ \E i \in DOMAIN originalId : originalId[i] = " "
    /\ \A i \in DOMAIN originalId : originalId[i] \notin Alnum \cup { "_" }

-----------------------------------------------------------------------------
\* Tool synthesis (OpenAPISpecsLoader.parseOpenAPISpec).

\* The entry is added without looking for the key.
mapAppend(m, key, value) == Append(m, << key, value >>)

\* Map.set(key, value): an existing key keeps its place in the iteration order
mapSet(m, key, value) ==
    IF \E i \in DOMAIN m : m[i][1] = key
    THEN [ i \in DOMAIN m |-> IF m[i][1] = key THEN << key, value >> ELSE m[i] ]
    ELSE Append(m, << key, value >>)

mapHas(m, key) == \E i \in DOMAIN m : m[i][1] = key

mapGet(m, key) == m[CHOOSE i \in DOMAIN m : m[i][1] = key][2]

HttpMethods ==
    { << "g", "e", "t" >>, << "p", "o", "s", "t" >>, << "p", "u", "t" >>, << "p", "a", "t", "c", "h" >>, << "d", "e", "l", "e", "t", "e" >>, << "o", "p", "t", "i", "o", "n", "s" >>, << "h", "e", "a", "d" >> }

\* the keys of a path item that become tools
isOperationKey(method) ==
    method # << "p", "a", "r", "a", "m", "e", "t", "e", "r", "s" >> /\ toLowerCase(method) \in HttpMethods

\* path.replace(/\{([^}]+)\}/g, "$1")
RECURSIVE stripBraces(_)
stripBraces(s) ==
    IF s = << >> THEN << >>
    ELSE IF s[1] = "{" /\ \E j \in 3..Len(s) : s[j] = "}" /\ \A k \in 2..(j - 1) : s[k] # "}"
    THEN LET j == CHOOSE j \in 3..Len(s) : s[j] = "}" /\ \A k \in 2..(j - 1) : s[k] # "}"
         IN  SubSeq(s, 2, j - 1) \o stripBraces(SubSeq(s, j + 1, Len(s)))
    ELSE << s[1] >> \o stripBraces(Tail(s))

\* the registry key of an operation
toolIdOf(method, path) ==
    LET cleanPath == stripBraces(IF path # << >> /\ path[1] = "/" THEN Tail(path) ELSE path)
    IN  replaceOutside(toUpperCase(method) \o << "-" >> \o cleanPath, Alnum \cup { "-" })

\* op.operationId || `${method.toUpperCase()} ${path}`
nameSourceOf(method, path, op) ==
    IF "operationId" \in DOMAIN op /\ op.operationId # << >>
    THEN op.operationId
    ELSE toUpperCase(method) \o << " " >> \o path

\* op.description || `Make a ${method.toUpperCase()} request to ${path}`
descriptionOf(method, path, op) ==
    IF "description" \in DOMAIN op /\ op.description # << >>
    THEN op.description
    ELSE << "M", "a", "k", "e", " ", "a", " " >> \o toUpperCase(method) \o << " ", "r", "e", "q", "u", "e", "s", "t", " ", "t", "o", " " >> \o path

\* A parameter entry with only a name is taken as declared.
isNamed(param) == "name" \in DOMAIN param

\* "name" in param && "in" in param
isDeclared(param) == "name" \in DOMAIN param /\ "in" \in DOMAIN param

\* The object stored under the parameter's name, in inputSchema.properties and
\* in params alike (one object, so `in` and `required` show in both).
paramObjectOf(param) ==
    [ type |-> IF "type" \in DOMAIN param.schema /\ param.schema.type # ""
               THEN param.schema.type ELSE "string",
      description |-> IF "description" \in DOMAIN param /\ param.description # << >>
                      THEN param.description ELSE param.name \o << " ", "p", "a", "r", "a", "m", "e", "t", "e", "r" >>,
      in |-> IF "in" \in DOMAIN param /\ param.in # "" THEN param.in ELSE "query",
      required |-> "required" \in DOMAIN param /\ param.required ]

\* The loop over op.parameters: the tool after the entries from index i on.
\* Reading .type of a missing schema throws.
RECURSIVE addParameters(_, _, _)
addParameters(t, parameters, i) ==
    IF i > Len(parameters) THEN [ threw |-> FALSE, tool |-> t ]
    ELSE LET param == parameters[i]
         IN  IF ~isDeclared(param) THEN addParameters(t, parameters, i + 1)
             ELSE IF "schema" \notin DOMAIN param THEN [ threw |-> TRUE, tool |-> t ]
             ELSE LET paramObject == paramObjectOf(param)
                      properties == (param.name :> paramObject) @@ t.inputSchema.properties
                  IN  addParameters(
                          [ t EXCEPT !.inputSchema = [ @ EXCEPT !.properties = properties ],
                                     !.params = (param.name :> paramObject) @@ @ ],
                          parameters, i + 1)

\* The tool built for one operation. An undefined headers field is a missing key.
synthesizeTool(providerName, preparedTool, path, method, op) ==
    LET t == [ name |-> providerName \o << "-" >>
                            \o abbreviateOperationId(nameSourceOf(method, path, op),
                                                     DefaultMaxLength),
               description |-> descriptionOf(method, path, op),
               inputSchema |-> [ type |-> "object", properties |-> << >> ],
               url |-> preparedTool.baseUrl,
               path |-> path,
               method |-> toLowerCase(method),
               params |-> << >> ]
             @@ ( IF "headers" \in DOMAIN preparedTool
                  THEN [ headers |-> preparedTool.headers ] ELSE << >> )
    IN  IF "parameters" \in DOMAIN op
        THEN addParameters(t, op.parameters, 1)
        ELSE [ threw |-> FALSE, tool |-> t ]

\* The <<path, method, operation>> triples of a document in iteration order,
\* the skipped keys left out.
operationsOf(specification) ==
    Flatten([ i \in DOMAIN specification.paths |->
        LET path == specification.paths[i][1]
            pathItem == specification.paths[i][2]
            kept == SelectSeq(pathItem, LAMBDA entry : isOperationKey(entry[1]))
        IN  [ j \in DOMAIN kept |-> << path, kept[j][1], kept[j][2] >> ] ])

RECURSIVE parseOperations(_, _, _, _, _)
parseOperations(providerName, preparedTool, ops, i, acc) ==
    IF i > Len(ops) THEN [ threw |-> FALSE, tools |-> acc ]
    ELSE LET r == synthesizeTool(providerName, preparedTool, ops[i][1], ops[i][2], ops[i][3])
         IN  IF r.threw THEN [ threw |-> TRUE, tools |-> acc ]
             ELSE parseOperations(providerName, preparedTool, ops, i + 1,
                                  mapSet(acc, toolIdOf(ops[i][2], ops[i][1]), r.tool))

parseOpenAPISpec(providerName, preparedTool) ==
    parseOperations(providerName, preparedTool,
                    operationsOf(preparedTool.specification), 1, << >>)

-----------------------------------------------------------------------------
\* Sample provider directories: parsed documents and config.json contents.

P_id == [ name |-> << "i", "d" >>, in |-> "path", required |-> TRUE, schema |-> [ type |-> "string" ] ]
P_limit == [ name |-> << "l", "i", "m", "i", "t" >>, in |-> "query", schema |-> [ type |-> "integer" ],
             description |-> << "p", "a", "g", "e", " ", "s", "i", "z", "e" >> ]
P_tags == [ name |-> << "t", "a", "g", "s" >>, in |-> "query", required |-> FALSE, schema |-> << >> ]
P_token == [ name |-> << "t", "o", "k", "e", "n" >>, in |-> "header", required |-> TRUE,
             schema |-> [ type |-> "string" ] ]
P_noIn == [ name |-> << "x" >>, schema |-> [ type |-> "string" ] ]
P_noName == [ in |-> "query", schema |-> [ type |-> "string" ] ]
P_noSchema == [ name |-> << "p" >>, in |-> "query" ]

DocUsers ==
    [ paths |-> <<
        << << "/", "u", "/", "{", "i", "d", "}" >>, <<
            << << "p", "a", "r", "a", "m", "e", "t", "e", "r", "s" >>, << P_id >> >>,
            << << "g", "e", "t" >>, [ operationId |-> << "g", "e", "t", "U", "s", "e", "r", "I", "d", "e", "n", "t", "i", "f", "i", "e", "r" >>,
                        parameters |-> << P_id, P_limit, P_tags, P_noIn, P_noName >> ] >>,
            << << "t", "r", "a", "c", "e" >>, [ operationId |-> << "t", "r", "a", "c", "e", "U", "s", "e", "r" >> ] >> >> >>,
        << << "/", "u" >>, <<
            << << "g", "e", "t" >>, [ summary |-> << "l", "i", "s", "t", "U", "s", "e", "r", "s" >>, description |-> << "A", "l", "l", " ", "u", "s", "e", "r", "s" >> ] >>,
            << << "P", "O", "S", "T" >>, [ parameters |-> << P_tags >> ] >> >> >> >> ]

DocOrders ==
    [ paths |-> <<
        << << "/", "u", "/", "{", "i", "d", "}" >>, <<
            << << "g", "e", "t" >>, [ operationId |-> << "f", "e", "t", "c", "h" >>, summary |-> << "f", "e", "t", "c", "h", "O", "n", "e" >>,
                        parameters |-> << P_id >> ] >> >> >>,
        << << "/", "u", "/", "i", "d" >>, <<
            << << "g", "e", "t" >>, [ operationId |-> << "o", "t", "h", "e", "r" >> ] >> >> >>,
        << << "/", "o", ".", "x" >>, <<
            << << "d", "e", "l", "e", "t", "e" >>, [ summary |-> << "d", "r", "o", "p", "O", "r", "d", "e", "r" >>, parameters |-> << P_token, P_limit >> ] >> >> >> >> ]

DocBroken ==
    [ paths |-> <<
        << << "/", "b" >>, << << << "g", "e", "t" >>, [ operationId |-> << "o", "k" >> ] >> >> >>,
        << << "/", "c" >>, << << << "g", "e", "t" >>, [ parameters |-> << P_noSchema >> ] >> >> >> >> ]

Documents == { DocUsers, DocOrders, DocBroken }

MaxProviders == 2

providerNameOf(i) == << LowerSeq[i] >>

\* config.json of provider i: absent, without baseUrl, with baseUrl, with both
ConfigsOf(i) ==
    { << >>,
      [ config |-> [ headers |-> (<< "k" >> :> << "v" >>) ] ],
      [ config |-> [ baseUrl |-> << "/", "/" >> \o providerNameOf(i) ] ],
      [ config |-> [ baseUrl |-> << "/", "/" >> \o providerNameOf(i),
                     headers |-> (<< "k" >> :> << "v" >>) ] ] }

\* specification.{json,yaml,yml} of a provider: absent or a parsed document
SpecificationFiles == { << >> } \cup { [ specification |-> d ] : d \in Documents }

SubdirsOf(i) ==
    { [ name |-> providerNameOf(i) ] @@ c @@ f : c \in ConfigsOf(i), f \in SpecificationFiles }

RECURSIVE Directories(_)
Directories(n) ==
    IF n = 0 THEN { << >> }
    ELSE LET shorter == Directories(n - 1)
         IN  shorter \cup { Append(d, s) : d \in { e \in shorter : Len(e) = n - 1 },
                                            s \in SubdirsOf(n) }

-----------------------------------------------------------------------------
\* Spec: ToolsManager.initialize over one specs directory.

Init ==
    /\ directory \in Directories(MaxProviders)
    /\ pc = "start"
    /\ next = 1
    /\ specifications = << >>
    /\ tools = << >>
    /\ initError = ""
    /\ found = << >>
    /\ listed = << >>
    /\ CompressIdle /\ DispatchIdle /\ ToolIdIdle

\* loadOpenAPISpecs up to the loop: a directory without provider
\* subdirectories is an error
ListProviders ==
    /\ pc = "start"
    /\ IF Len(directory) = 0
       THEN pc' = "failed" /\ initError' = "Failed to load OpenAPI specifications"
       ELSE pc' = "load" /\ UNCHANGED initError
    /\ UNCHANGED << directory, next, specifications, tools, found, listed >>
    /\ UNCHANGED << compressVars, dispatchVars, toolIdVars >>

\* config.json is missing, or its baseUrl is missing or empty
hasNoBaseUrl(subdir) ==
    \/ "config" \notin DOMAIN subdir
    \/ "baseUrl" \notin DOMAIN subdir.config
    \/ subdir.config.baseUrl = << >>

preparedToolOf(subdir) ==
    [ specification |-> subdir.specification, baseUrl |-> subdir.config.baseUrl ]
    @@ ( IF "headers" \in DOMAIN subdir.config
         THEN [ headers |-> subdir.config.headers ] ELSE << >> )

\* One iteration of the loop of loadOpenAPISpecs over the subdirectories and,
\* after the last one, the check that some provider was loaded. An error
\* thrown in the loop leaves loadOpenAPISpecs, and initialize with it.
LoadProvider ==
    /\ pc = "load"
    /\ next <= Len(directory)
    /\ LET subdir == directory[next]
           loaded == IF "specification" \in DOMAIN subdir
                     THEN mapSet(specifications, subdir.name, preparedToolOf(subdir))
                     ELSE specifications
       IN  IF hasNoBaseUrl(subdir)
           THEN /\ pc' = "failed"
                /\ initError' = "Failed to load OpenAPI specifications"
                /\ UNCHANGED << next, specifications >>
           ELSE IF next < Len(directory)
           THEN /\ specifications' = loaded
                /\ next' = next + 1
                /\ UNCHANGED << pc, initError >>
           ELSE IF Len(loaded) = 0
           THEN /\ pc' = "failed"
                /\ initError' = "Failed to load OpenAPI specifications"
                /\ UNCHANGED << next, specifications >>
           ELSE /\ specifications' = loaded
                /\ pc' = "parse"
                /\ next' = 1
                /\ UNCHANGED initError
    /\ UNCHANGED << directory, tools, found, listed, compressVars, dispatchVars, toolIdVars >>

RECURSIVE setAll(_, _, _)
setAll(registry, parsedTools, i) ==
    IF i > Len(parsedTools) THEN registry
    ELSE setAll(mapSet(registry, parsedTools[i][1], parsedTools[i][2]), parsedTools, i + 1)

\* One iteration of the loop of initialize over the prepared providers:
\* parseOpenAPISpec, then every parsed tool set in the registry. An error
\* thrown by parseOpenAPISpec leaves initialize.
ParseProvider ==
    /\ pc = "parse"
    /\ next <= Len(specifications)
    /\ LET parsed == parseOpenAPISpec(specifications[next][1], specifications[next][2])
       IN  IF parsed.threw
           THEN /\ pc' = "failed"
                /\ initError' = "TypeError"
                /\ UNCHANGED << next, tools >>
           ELSE /\ tools' = setAll(tools, parsed.tools, 1)
                /\ next' = next + 1
                /\ pc' = IF next = Len(specifications) THEN "done" ELSE "parse"
                /\ UNCHANGED initError
    /\ UNCHANGED << directory, specifications, found, listed >>
    /\ UNCHANGED << compressVars, dispatchVars, toolIdVars >>

\* Array.from(this.tools.values())
getAllTools(registry) == [ i \in DOMAIN registry |-> registry[i][2] ]

\* By id first, then the first entry in iteration order with that name, else
\* undefined.
findTool(registry, idOrName) ==
    IF mapHas(registry, idOrName)
    THEN [ toolId |-> idOrName, tool |-> mapGet(registry, idOrName) ]
    ELSE IF \E i \in DOMAIN registry : registry[i][2].name = idOrName
    THEN LET i == CHOOSE i \in DOMAIN registry :
                     /\ registry[i][2].name = idOrName
                     /\ \A j \in 1..(i - 1) : registry[j][2].name # idOrName
         IN  [ toolId |-> registry[i][1], tool |-> registry[i][2] ]
    ELSE [ kind |-> "undefined" ]

\* what findTool is asked for: the ids and the names of the registry, and a
\* string that is neither
Lookups ==
    { tools[i][1] : i \in DOMAIN tools } \cup { tools[i][2].name : i \in DOMAIN tools }
        \cup { << "n", "o", "n", "e" >> }

\* a call of findTool once initialize has resolved
FindTool ==
    /\ pc = "done"
    /\ \E idOrName \in Lookups :
           found' = << [ idOrName |-> idOrName, result |-> findTool(tools, idOrName) ] >>
    /\ UNCHANGED << directory, pc, next, specifications, tools, initError, listed >>
    /\ UNCHANGED << compressVars, dispatchVars, toolIdVars >>

\* a call of getAllTools once initialize has resolved
GetAllTools ==
    /\ pc = "done"
    /\ listed' = << getAllTools(tools) >>
    /\ UNCHANGED << directory, pc, next, specifications, tools, initError, found >>
    /\ UNCHANGED << compressVars, dispatchVars, toolIdVars >>

Next == ListProviders \/ LoadProvider \/ ParseProvider \/ FindTool \/ GetAllTools

Spec == Init /\ [][Next]_vars

-----------------------------------------------------------------------------
\* Claims about synthesis and the registry, checked under Spec.

\* the providers initialize has parsed and registered so far
parsedCount ==
    IF pc \in { "parse", "done" } \/ (pc = "failed" /\ initError = "TypeError")
    THEN next - 1 ELSE 0

\* the operations accepted from those providers, in the order of registration
AcceptedOps ==
    Flatten([ i \in 1..parsedCount |->
        LET ops == operationsOf(specifications[i][2].specification)
        IN  [ j \in DOMAIN ops |->
                [ provider |-> specifications[i][1], path |-> ops[j][1],
                  method |-> ops[j][2], operation |-> ops[j][3] ] ] ])

idOf(o) == toolIdOf(o.method, o.path)

\* the operation whose descriptor the registry holds under a toolId: the last
\* one registered under it
sourceOf(id) ==
    AcceptedOps[CHOOSE i \in DOMAIN AcceptedOps :
        /\ idOf(AcceptedOps[i]) = id
        /\ \A j \in DOMAIN AcceptedOps : idOf(AcceptedOps[j]) = id => j <= i]

\* the names of the parameter entries that have both a name and an in field
declaredNames(o) ==
    IF "parameters" \in DOMAIN o.operation
    THEN { o.operation.parameters[k].name :
             k \in { k \in DOMAIN o.operation.parameters :
                       { "name", "in" } \subseteq DOMAIN o.operation.parameters[k] } }
    ELSE { }

requiredNames(o) ==
    IF "parameters" \in DOMAIN o.operation
    THEN { o.operation.parameters[k].name :
             k \in { k \in DOMAIN o.operation.parameters :
                       /\ { "name", "in", "required" } \subseteq DOMAIN o.operation.parameters[k]
                       /\ o.operation.parameters[k].required } }
    ELSE { }

\* C2: two accepted operations that differ in provider, method or path have
\* different toolIds, and the registry holds one descriptor for every accepted
\* operation.
C2_ToolIdUnique ==
    pc = "done" =>
        /\ \A i, j \in DOMAIN AcceptedOps :
               i # j => idOf(AcceptedOps[i]) # idOf(AcceptedOps[j])
        /\ Len(tools) = Len(AcceptedOps)

\* a provider that loads and synthesizes: config.json with a baseUrl, a
\* specification, and no parameter entry that makes synthesis throw
isWellFormed(subdir) ==
    /\ "config" \in DOMAIN subdir
    /\ "baseUrl" \in DOMAIN subdir.config
    /\ "specification" \in DOMAIN subdir
    /\ subdir.specification # DocBroken

\* C4: when a provider of the directory has no base URL, initialization still
\* completes and the registry holds the tools of every well-formed provider.
C4_ProviderIsolation ==
    ( /\ pc \in { "done", "failed" }
      /\ \E i \in DOMAIN directory :
             "config" \notin DOMAIN directory[i] \/ "baseUrl" \notin DOMAIN directory[i].config
      /\ \E i \in DOMAIN directory : isWellFormed(directory[i]) ) =>
        /\ pc = "done"
        /\ \A i \in DOMAIN directory :
               isWellFormed(directory[i]) =>
                   LET ops == operationsOf(directory[i].specification)
                   IN  \A j \in DOMAIN ops : mapHas(tools, toolIdOf(ops[j][2], ops[j][1]))

\* C8: the name of every synthesized tool is the provider name, "-", and the
\* compression of the operationId if present, else of the summary if present,
\* else of "METHOD /path".
C8_NameSource ==
    \A e \in DOMAIN tools :
        LET o == sourceOf(tools[e][1])
            source == IF "operationId" \in DOMAIN o.operation THEN o.operation.operationId
                      ELSE IF "summary" \in DOMAIN o.operation THEN o.operation.summary
                      ELSE toUpperCase(o.method) \o << " " >> \o o.path
        IN  tools[e][2].name =
                o.provider \o << "-" >> \o abbreviateOperationId(source, DefaultMaxLength)

\* C9: inputSchema.required lists exactly the declared parameters whose
\* required flag is true, and is absent when there is none.
C9_RequiredList ==
    \A e \in DOMAIN tools :
        LET required == requiredNames(sourceOf(tools[e][1]))
            schema == tools[e][2].inputSchema
        IN  IF required = { }
            THEN "required" \notin DOMAIN schema
            ELSE "required" \in DOMAIN schema /\ Range(schema.required) = required

\* C10: in every tool descriptor the keys of params are the keys of
\* inputSchema.properties, namely the names of the parameter entries that have
\* both a name and an in field; an entry lacking either is in neither.
C10_ParamsMatchProperties ==
    \A e \in DOMAIN tools :
        /\ DOMAIN tools[e][2].params = DOMAIN tools[e][2].inputSchema.properties
        /\ DOMAIN tools[e][2].params = declaredNames(sourceOf(tools[e][1]))

\* C10 witness: a registered tool with declared parameters whose operation also
\* has an entry without an in field and an entry without a name.
C10_Witness ==
    \E e \in DOMAIN tools :
        LET o == sourceOf(tools[e][1])
        IN  /\ DOMAIN tools[e][2].params # { }
            /\ \E k \in DOMAIN o.operation.parameters :
                   "in" \notin DOMAIN o.operation.parameters[k]
            /\ \E k \in DOMAIN o.operation.parameters :
                   "name" \notin DOMAIN o.operation.parameters[k]

\* the descriptor parseOpenAPISpec builds for an accepted operation
descriptorOf(o) ==
    synthesizeTool(o.provider, mapGet(specifications, o.provider),
                   o.path, o.method, o.operation).tool

\* C13: when a toolId was set twice with different descriptors, the registry
\* has exactly one entry for it, findTool of that toolId returns the later
\* descriptor, and getAllTools does not contain the earlier one.
C13_Upsert ==
    pc = "done" =>
        \A i, j \in DOMAIN AcceptedOps :
            ( /\ i < j
              /\ idOf(AcceptedOps[i]) = idOf(AcceptedOps[j])
              /\ descriptorOf(AcceptedOps[i]) # descriptorOf(AcceptedOps[j]) ) =>
                LET id == idOf(AcceptedOps[i])
                IN  /\ Cardinality({ e \in DOMAIN tools : tools[e][1] = id }) = 1
                    /\ ( found # << >> /\ found[1].idOrName = id ) =>
                           found[1].result =
                               [ toolId |-> id, tool |-> descriptorOf(sourceOf(id)) ]
                    /\ listed # << >> =>
                           \A e \in DOMAIN listed[1] :
                               listed[1][e] # descriptorOf(AcceptedOps[i])

\* C13 witness: two providers registered the same toolId, and both reads were
\* made, findTool with that toolId.
C13_Witness ==
    /\ pc = "done"
    /\ found # << >>
    /\ listed # << >>
    /\ \E i, j \in DOMAIN AcceptedOps :
           /\ i < j
           /\ AcceptedOps[i].provider # AcceptedOps[j].provider
           /\ idOf(AcceptedOps[i]) = idOf(AcceptedOps[j])
           /\ found[1].idOrName = idOf(AcceptedOps[i])
           /\ found[1].result.tool = descriptorOf(AcceptedOps[j])

\* C15: parseOpenAPISpec does not throw on a path item key outside the method
\* set or on a parameter entry without name, in or schema; it skips the key
\* or the entry and returns a descriptor for every other operation.
C15_AnomaliesSkipped ==
    /\ ~(pc = "failed" /\ initError = "TypeError")
    /\ pc = "done" =>
           \A i \in DOMAIN directory :
               "specification" \in DOMAIN directory[i] =>
                   LET ops == operationsOf(directory[i].specification)
                   IN  \A j \in DOMAIN ops : mapHas(tools, toolIdOf(ops[j][2], ops[j][1]))

-----------------------------------------------------------------------------
\* Request dispatch (ApiClient.executeApiCall).

\* Parameter values: undefined, a string, an array of values
Undefined == [ kind |-> "undefined" ]
Str(chars) == [ kind |-> "string", chars |-> chars ]
Arr(items) == [ kind |-> "array", items |-> items ]

\* Names every object literal inherits from Object.prototype; obj[name] is a
\* function, hence truthy, when obj has no own key of that name.
ObjectPrototypeKeys == { << "c", "o", "n", "s", "t", "r", "u", "c", "t", "o", "r" >>, << "t", "o", "S", "t", "r", "i", "n", "g" >> }

\* obj[key] is truthy; the own values here are objects
hasTruthy(obj, key) == key \in DOMAIN obj \/ key \in ObjectPrototypeKeys

\* String(value), and Array.prototype.join, which renders undefined as ""
RECURSIVE stringOf(_)
stringOf(value) ==
    IF value.kind = "string" THEN value.chars
    ELSE IF value.kind = "array"
    THEN join([ i \in DOMAIN value.items |->
                  IF value.items[i].kind = "undefined" THEN << >>
                  ELSE stringOf(value.items[i]) ], << "," >>)
    ELSE << "u", "n", "d", "e", "f", "i", "n", "e", "d" >>

Unreserved == Alnum \cup { "-", "_", "." }

PercentCode ==
    (" " :> << "%", "2", "0" >>) @@ ("/" :> << "%", "2", "F" >>) @@ ("{" :> << "%", "7", "B" >>) @@ ("}" :> << "%", "7", "D" >>) @@
    ("," :> << "%", "2", "C" >>) @@ ("%" :> << "%", "2", "5" >>) @@ ("$" :> << "%", "2", "4" >>)

encodeURIComponent(value) ==
    LET s == stringOf(value)
    IN  Flatten([ i \in DOMAIN s |->
            IF s[i] \in Unreserved THEN << s[i] >> ELSE PercentCode[s[i]] ])

\* s.replace(pattern, replacement) with a string pattern: the first occurrence
replaceFirst(s, pattern, replacement) ==
    LET at == { i \in 1..(Len(s) - Len(pattern) + 1) :
                  SubSeq(s, i, i + Len(pattern) - 1) = pattern }
    IN  IF at = { } THEN s
        ELSE LET i == CHOOSE i \in at : \A j \in at : i <= j
             IN  SubSeq(s, 1, i - 1) \o replacement \o SubSeq(s, i + Len(pattern), Len(s))

\* Arrays are passed on as they are.
passQueryParams(query) == query

processQueryParams(query) ==
    [ key \in DOMAIN query |->
        IF query[key].kind = "array" THEN Str(stringOf(query[key])) ELSE query[key] ]

\* The loop throws for an undefined value only when the parameter is declared
\* required.
RECURSIVE bindRequiredOnly(_, _, _, _)
bindRequiredOnly(t, entries, i, cfg) ==
    IF i > Len(entries) THEN [ threw |-> FALSE, config |-> cfg ]
    ELSE LET paramName == entries[i][1]
             value == entries[i][2]
         IN  IF ~hasTruthy(t.inputSchema.properties, paramName)
             THEN bindRequiredOnly(t, entries, i + 1, cfg)
             ELSE IF /\ paramName \in DOMAIN t.params /\ t.params[paramName].required
                     /\ value = Undefined
             THEN [ threw |-> TRUE, config |-> cfg,
                    error |-> << "M", "i", "s", "s", "i", "n", "g", " ", "r", "e", "q", "u", "i", "r", "e", "d", " ", "p", "a", "r", "a", "m", "e", "t", "e", "r", ":", " " >> \o paramName ]
             ELSE IF ~hasTruthy(t.params, paramName)
             THEN bindRequiredOnly(t, entries, i + 1, cfg)
             ELSE IF paramName \in DOMAIN t.params /\ t.params[paramName].in = "query"
             THEN bindRequiredOnly(t, entries, i + 1,
                      [ params |-> processQueryParams(
                            (paramName :> value) @@
                            (IF "params" \in DOMAIN cfg THEN cfg.params ELSE << >>)) ]
                      @@ cfg)
             ELSE bindRequiredOnly(t, entries, i + 1,
                      [ cfg EXCEPT !.url =
                          replaceFirst(@, << "{" >> \o paramName \o << "}" >>,
                                       encodeURIComponent(value)) ])

\* The loop over Object.entries(params) from entry i on: the request
\* configuration it leaves, or the error it throws.
RECURSIVE bindParams(_, _, _, _)
bindParams(t, entries, i, cfg) ==
    IF i > Len(entries) THEN [ threw |-> FALSE, config |-> cfg ]
    ELSE LET paramName == entries[i][1]
             value == entries[i][2]
         IN  IF ~hasTruthy(t.inputSchema.properties, paramName)
             THEN bindParams(t, entries, i + 1, cfg)
             ELSE IF hasTruthy(t.params, paramName) /\ value = Undefined
             THEN [ threw |-> TRUE, config |-> cfg,
                    error |-> << "M", "i", "s", "s", "i", "n", "g", " ", "r", "e", "q", "u", "i", "r", "e", "d", " ", "p", "a", "r", "a", "m", "e", "t", "e", "r", ":", " " >> \o paramName ]
             ELSE IF ~hasTruthy(t.params, paramName)
             THEN bindParams(t, entries, i + 1, cfg)
             ELSE IF paramName \in DOMAIN t.params /\ t.params[paramName].in = "query"
             THEN bindParams(t, entries, i + 1,
                      [ params |-> processQueryParams(
                            (paramName :> value) @@
                            (IF "params" \in DOMAIN cfg THEN cfg.params ELSE << >>)) ]
                      @@ cfg)
             ELSE bindParams(t, entries, i + 1,
                      [ cfg EXCEPT !.url =
                          replaceFirst(@, << "{" >> \o paramName \o << "}" >>,
                                       encodeURIComponent(value)) ])

\* the request configuration before binding
initialConfig(t) ==
    [ method |-> t.method, baseURL |-> t.url, url |-> t.path ]
    @@ ( IF "headers" \in DOMAIN t THEN [ headers |-> t.headers ] ELSE << >> )

\* The bound url is written back into the descriptor's path template.
executeApiCallWritingPath(t, entries) ==
    LET bound == bindParams(t, entries, 1, initialConfig(t))
    IN  [ tool |-> [ t EXCEPT !.path = bound.config.url ] ] @@ bound

\* The call up to the await: what the loop leaves or throws, and the
\* descriptor object as the call leaves it (no statement assigns to it).
executeApiCall(t, entries) ==
    [ tool |-> t ] @@ bindParams(t, entries, 1, initialConfig(t))

-----------------------------------------------------------------------------
\* SpecDispatch: one executeApiCall on a tool of the registry.

MaxParams == 2

\* the tools initialize registers for a well-formed sample provider
SampleTools ==
    UNION { LET parsed == parseOpenAPISpec(<< "a" >>,
                              [ specification |-> d, baseUrl |-> << "/", "/", "a" >>,
                                headers |-> (<< "k" >> :> << "v" >>) ]).tools
            IN  { parsed[i][2] : i \in DOMAIN parsed } : d \in { DocUsers, DocOrders } }

ParamNames == { << "i", "d" >>, << "l", "i", "m", "i", "t" >>, << "t", "a", "g", "s" >>, << "e", "x", "t", "r", "a" >>, << "c", "o", "n", "s", "t", "r", "u", "c", "t", "o", "r" >> }

ParamValues == { Undefined, Str(<< "4", "2" >>), Str(<< "a", "/", "b" >>), Arr(<< Str(<< "1" >>), Str(<< "2" >>) >>) }

\* the parameter maps as entry sequences with distinct names
RECURSIVE ParamMaps(_)
ParamMaps(n) ==
    IF n = 0 THEN { << >> }
    ELSE LET shorter == ParamMaps(n - 1)
         IN  shorter \cup
             { Append(m, << k, v >>) :
                 m \in { e \in shorter : Len(e) = n - 1 }, k \in ParamNames, v \in ParamValues }

hasDistinctNames(m) == \A i, j \in DOMAIN m : i # j => m[i][1] # m[j][1]

DispatchInit ==
    /\ tool \in SampleTools
    /\ params \in { m \in ParamMaps(MaxParams) : hasDistinctNames(m) }
    /\ callPc = "called"
    /\ config = initialConfig(tool)
    /\ requests = << >>
    /\ error = << >>
    /\ response = << >>
    /\ other = [ callPc |-> "idle" ]
    /\ CompressIdle /\ StartupIdle /\ ToolIdIdle

\* executeApiCall up to the await: the binding loop, then the request handed
\* to axios, unless the loop throws
ExecuteApiCall ==
    /\ callPc = "called"
    /\ LET bound == executeApiCall(tool, params)
       IN  /\ IF bound.threw
              THEN /\ callPc' = "failed"
                   /\ error' = bound.error
                   /\ config' = bound.config
                   /\ UNCHANGED requests
              ELSE /\ callPc' = "awaiting"
                   /\ config' = bound.config
                   /\ requests' = Append(requests, bound.config)
                   /\ UNCHANGED error
           /\ tool' = bound.tool
    /\ UNCHANGED << params, response, other, compressVars, startupVars, toolIdVars >>

\* What axios rejects with: an AxiosError with a message and, when the server
\* answered, the status and the body, a string or an object (given here by
\* its JSON text).
Failures ==
    { [ message |-> << "N", "e", "t", "w", "o", "r", "k", " ", "E", "r", "r", "o", "r" >> ],
      [ message |-> << "s", "t", "a", "t", "u", "s", " ", "4", "0", "4" >>,
        response |-> [ status |-> << "4", "0", "4" >>, data |-> Str(<< "g", "o", "n", "e" >>) ] ],
      [ message |-> << "s", "t", "a", "t", "u", "s", " ", "5", "0", "0" >>,
        response |-> [ status |-> << "5", "0", "0" >>, data |-> [ kind |-> "object", json |-> << "{", "}" >> ] ] ] }

\* the message of the Error thrown in the catch block for an AxiosError
apiErrorOf(axiosError) ==
    << "A", "P", "I", " ", "r", "e", "q", "u", "e", "s", "t", " ", "f", "a", "i", "l", "e", "d", ":", " " >> \o axiosError.message \o
    ( IF "response" \in DOMAIN axiosError
      THEN << " ", "(" >> \o axiosError.response.status \o << ":", " " >> \o
           ( IF axiosError.response.data.kind = "object"
             THEN axiosError.response.data.json
             ELSE axiosError.response.data.chars ) \o << ")" >>
      ELSE << >> )

\* the request resolves with a 2xx response: response.data is returned
HttpSuccess ==
    /\ callPc = "awaiting"
    /\ callPc' = "returned"
    /\ response' = [ status |-> << "2", "0", "0" >> ]
    /\ UNCHANGED << tool, params, config, requests, error, other >>
    /\ UNCHANGED << compressVars, startupVars, toolIdVars >>

\* The request is sent again, once, before the call gives up.
HttpFailureRetry ==
    /\ callPc = "awaiting"
    /\ \E axiosError \in Failures :
           /\ response' = axiosError
           /\ IF Len(requests) < 2
              THEN /\ requests' = Append(requests, config)
                   /\ UNCHANGED << callPc, error >>
              ELSE /\ callPc' = "failed"
                   /\ error' = apiErrorOf(axiosError)
                   /\ UNCHANGED requests
    /\ UNCHANGED << tool, params, config, other >>
    /\ UNCHANGED << compressVars, startupVars, toolIdVars >>

\* the request rejects (transport failure or non-2xx status): the catch block
\* throws an Error with the message, the status and the body
HttpFailure ==
    /\ callPc = "awaiting"
    /\ \E axiosError \in Failures :
           /\ response' = axiosError
           /\ error' = apiErrorOf(axiosError)
    /\ callPc' = "failed"
    /\ UNCHANGED << tool, params, config, requests, other >>
    /\ UNCHANGED << compressVars, startupVars, toolIdVars >>

DispatchNext == ExecuteApiCall \/ HttpSuccess \/ HttpFailure

SpecDispatch == DispatchInit /\ [][DispatchNext]_vars

-----------------------------------------------------------------------------
\* Claims about dispatch, checked under SpecDispatch.

isSupplied(n) == \E i \in DOMAIN params : params[i][1] = n

suppliedValue(n) == params[CHOOSE i \in DOMAIN params : params[i][1] = n][2]

\* the binding loop threw: the call failed before any request
bindingFailed == callPc = "failed" /\ requests = << >>

\* the call got past binding and handed its request to the HTTP client
requestSent == callPc \in { "awaiting", "returned", "failed" } /\ requests # << >>

isMissingParameterError(e) ==
    /\ Len(e) > Len(<< "M", "i", "s", "s", "i", "n", "g", " ", "r", "e", "q", "u", "i", "r", "e", "d", " ", "p", "a", "r", "a", "m", "e", "t", "e", "r", ":", " " >>)
    /\ SubSeq(e, 1, Len(<< "M", "i", "s", "s", "i", "n", "g", " ", "r", "e", "q", "u", "i", "r", "e", "d", " ", "p", "a", "r", "a", "m", "e", "t", "e", "r", ":", " " >>)) = << "M", "i", "s", "s", "i", "n", "g", " ", "r", "e", "q", "u", "i", "r", "e", "d", " ", "p", "a", "r", "a", "m", "e", "t", "e", "r", ":", " " >>

\* C1: the call fails with a missing-required-parameter error and sends no
\* request whenever a parameter declared required in tool.params is absent
\* from the params map or present with the value undefined.
C1_RequiredEnforced ==
    ( /\ callPc # "called"
      /\ \E n \in DOMAIN tool.params :
             /\ tool.params[n].required
             /\ ~isSupplied(n) \/ suppliedValue(n) = Undefined ) =>
        /\ bindingFailed
        /\ isMissingParameterError(error)

\* C5: in the request of a call that passed binding, every supplied
\* path-classified parameter stands URL-encoded in place of its {name}
\* placeholder, and the query map holds exactly the supplied query-classified
\* parameters, an array as its elements joined by commas, a scalar unchanged.
C5_RequestAssembly ==
    requestSent =>
        LET request == requests[1]
            pathNames == { n \in DOMAIN tool.params :
                             isSupplied(n) /\ tool.params[n].in = "path" }
            queryNames == { n \in DOMAIN tool.params :
                              isSupplied(n) /\ tool.params[n].in = "query" }
            segments == split(tool.path, "/")
            bound(segment) ==
                IF \E n \in pathNames : segment = << "{" >> \o n \o << "}" >>
                THEN LET n == CHOOSE n \in pathNames : segment = << "{" >> \o n \o << "}" >>
                     IN  encodeURIComponent(suppliedValue(n))
                ELSE segment
            queryValue(n) ==
                IF suppliedValue(n).kind = "array"
                THEN Str(join([ i \in DOMAIN suppliedValue(n).items |->
                                  suppliedValue(n).items[i].chars ], << "," >>))
                ELSE suppliedValue(n)
        IN  /\ request.url = join([ k \in DOMAIN segments |-> bound(segments[k]) ], << "/" >>)
            /\ IF queryNames = { }
               THEN "params" \notin DOMAIN request
               ELSE /\ DOMAIN request.params = queryNames
                    /\ \A n \in queryNames : request.params[n] = queryValue(n)

\* C5 witness: a request with a path value that encoding changes, an array in
\* the query map, and a declared query parameter that was not supplied.
C5_Witness ==
    /\ requestSent
    /\ \E n \in DOMAIN tool.params :
           /\ tool.params[n].in = "path" /\ isSupplied(n)
           /\ encodeURIComponent(suppliedValue(n)) # stringOf(suppliedValue(n))
    /\ \E n \in DOMAIN tool.params :
           /\ tool.params[n].in = "query" /\ isSupplied(n)
           /\ suppliedValue(n).kind = "array"
    /\ \E n \in DOMAIN tool.params : tool.params[n].in = "query" /\ ~isSupplied(n)

\* the params map without its entry i
withoutEntry(m, i) == SubSeq(m, 1, i - 1) \o SubSeq(m, i + 1, Len(m))

\* C6: a supplied parameter whose name is not a key of
\* tool.inputSchema.properties is ignored: it raises no error, and the request
\* is the one built from the same params map without that entry.
C6_UnknownIgnored ==
    callPc # "called" =>
        \A i \in DOMAIN params :
            params[i][1] \notin DOMAIN tool.inputSchema.properties =>
                LET alone == executeApiCall(tool, withoutEntry(params, i))
                IN  /\ alone.threw = bindingFailed
                    /\ bindingFailed => alone.error = error
                    /\ requestSent => alone.config = requests[1]

-----------------------------------------------------------------------------
\* SpecToolId: the tool id of one operation built by parseOpenAPISpec and
\* decomposed by ToolsManager.parseToolId.

\* The path is returned without its leading slash.
parseToolIdWithoutSlash(id) ==
    LET parts == split(id, "-")
        pathParts == Tail(parts)
        joined == join(pathParts, << "/" >>)
    IN  [ method |-> parts[1],
          path |-> [ i \in DOMAIN joined |-> IF joined[i] = "-" THEN "/" ELSE joined[i] ] ]

\* const [method, ...pathParts] = toolId.split("-");
\* path = "/" + pathParts.join("/").replace(/-/g, "/")
parseToolId(id) ==
    LET parts == split(id, "-")
        pathParts == Tail(parts)
        joined == join(pathParts, << "/" >>)
    IN  [ method |-> parts[1],
          path |-> << "/" >> \o [ i \in DOMAIN joined |-> IF joined[i] = "-" THEN "/" ELSE joined[i] ] ]

MaxSegments == 3

\* the method keys as documents spell them: lower case, upper case, mixed
MethodKeys ==
    HttpMethods \cup { toUpperCase(m) : m \in HttpMethods } \cup { << "G", "e", "t" >>, << "P", "o", "s", "t" >> }

\* alphanumeric names and {name} placeholders
Segments == { << "u", "s", "e", "r", "s" >>, << "u", "1" >>, << "V", "2" >>, << "{", "i", "d", "}" >>, << "{", "u", "s", "e", "r", "I", "d", "}" >> }

RECURSIVE SegmentLists(_)
SegmentLists(n) ==
    IF n = 0 THEN { << >> }
    ELSE LET shorter == SegmentLists(n - 1)
         IN  shorter \cup { Append(l, s) : l \in { e \in shorter : Len(e) = n - 1 }, s \in Segments }

pathOf(segments) == << "/" >> \o join(segments, << "/" >>)

ToolIdInit ==
    /\ idMethod \in MethodKeys
    /\ idPath \in { pathOf(l) : l \in SegmentLists(MaxSegments) }
    /\ toolId = << >>
    /\ parsedId = << >>
    /\ toolIdPc = "start"
    /\ CompressIdle /\ StartupIdle /\ DispatchIdle

\* parseOpenAPISpec builds the registry key of the operation
BuildToolId ==
    /\ toolIdPc = "start"
    /\ toolId' = toolIdOf(idMethod, idPath)
    /\ toolIdPc' = "built"
    /\ UNCHANGED << idMethod, idPath, parsedId, compressVars, startupVars, dispatchVars >>

\* ToolsManager.parseToolId on that key
ParseToolId ==
    /\ toolIdPc = "built"
    /\ parsedId' = parseToolId(toolId)
    /\ toolIdPc' = "parsed"
    /\ UNCHANGED << idMethod, idPath, toolId, compressVars, startupVars, dispatchVars >>

ToolIdNext == BuildToolId \/ ParseToolId

SpecToolId == ToolIdInit /\ [][ToolIdNext]_vars

withoutBraces(s) == SelectSeq(s, LAMBDA c : c \notin { "{", "}" })

\* C12: for every method key and every path of alphanumeric and {name}
\* segments, parseToolId of the tool id built from them returns the method
\* up to case and the path with its braces removed.
C12_RoundTrip ==
    toolIdPc = "parsed" =>
        /\ toLowerCase(parsedId.method) = toLowerCase(idMethod)
        /\ parsedId.path = withoutBraces(idPath)

\* C12 witness: a lower-case method and a path of three segments with a
\* placeholder in the middle, decomposed.
C12_Witness ==
    /\ toolIdPc = "parsed"
    /\ idMethod = << "g", "e", "t" >>
    /\ idPath = << "/", "u", "s", "e", "r", "s", "/", "{", "i", "d", "}", "/", "u", "1" >>
    /\ parsedId = [ method |-> << "G", "E", "T" >>, path |-> << "/", "u", "s", "e", "r", "s", "/", "i", "d", "/", "u", "1" >> ]

-----------------------------------------------------------------------------
\* Claims about the HTTP request of a call, checked under SpecDispatch.

contains(s, sub) == \E i \in 1..(Len(s) - Len(sub) + 1) : SubSeq(s, i, i + Len(sub) - 1) = sub

\* C16: a call that passes parameter binding sends exactly one HTTP request
\* and no call sends more than one; when the request fails, at transport
\* level or with a non-2xx status, the call ends with an error that carries
\* the status code and the body when there is a response, and no second
\* request is made.
C16_SingleRequest ==
    /\ Len(requests) <= 1
    /\ callPc \in { "awaiting", "returned" } => Len(requests) = 1
    /\ ( response # << >> /\ "message" \in DOMAIN response ) =>
           /\ callPc = "failed"
           /\ Len(requests) = 1
           /\ SubSeq(error, 1, 18) = << "A", "P", "I", " ", "r", "e", "q", "u", "e", "s", "t", " ", "f", "a", "i", "l", "e", "d" >>
           /\ "response" \in DOMAIN response =>
                  /\ contains(error, response.response.status)
                  /\ contains(error, IF response.response.data.kind = "object"
                                     THEN response.response.data.json
                                     ELSE response.response.data.chars)

\* C16 witness: a call with a bound path parameter whose request was answered
\* with 404 and which ended with the error carrying the status and the body.
C16_Witness ==
    /\ callPc = "failed"
    /\ Len(requests) = 1
    /\ requests[1].url = << "/", "u", "/", "4", "2" >>
    /\ response = [ message |-> << "s", "t", "a", "t", "u", "s", " ", "4", "0", "4" >>,
                    response |-> [ status |-> << "4", "0", "4" >>, data |-> Str(<< "g", "o", "n", "e" >>) ] ]
    /\ error = << "A", "P", "I", " ", "r", "e", "q", "u", "e", "s", "t", " ", "f", "a", "i", "l", "e", "d", ":", " ", "s", "t", "a", "t", "u", "s", " ", "4", "0", "4", " ", "(", "4", "0", "4", ":", " ", "g", "o", "n", "e", ")" >>

-----------------------------------------------------------------------------
\* SpecConcurrent: two calls of executeApiCall in flight on the same
\* descriptor. The binding loop of a call runs without interruption (it has
\* no await); the calls interleave at the await of the HTTP request.

ConcurrentParams == { m \in ParamMaps(1) : hasDistinctNames(m) }

ConcurrentInit ==
    /\ tool \in SampleTools
    /\ params \in ConcurrentParams
    /\ callPc = "called"
    /\ config = initialConfig(tool)
    /\ requests = << >>
    /\ error = << >>
    /\ response = << >>
    /\ \E entries \in ConcurrentParams :
           other = [ params |-> entries, callPc |-> "called", config |-> initialConfig(tool),
                     error |-> << >>, response |-> << >> ]
    /\ CompressIdle /\ StartupIdle /\ ToolIdIdle

\* the second call up to its await
OtherExecuteApiCall ==
    /\ other.callPc = "called"
    /\ LET bound == executeApiCall(tool, other.params)
       IN  /\ IF bound.threw
              THEN /\ other' = [ other EXCEPT !.callPc = "failed", !.error = bound.error,
                                              !.config = bound.config ]
                   /\ UNCHANGED requests
              ELSE /\ other' = [ other EXCEPT !.callPc = "awaiting", !.config = bound.config ]
                   /\ requests' = Append(requests, bound.config)
           /\ tool' = bound.tool
    /\ UNCHANGED << params, callPc, config, error, response >>
    /\ UNCHANGED << compressVars, startupVars, toolIdVars >>

\* the request of the second call resolves
OtherHttpSuccess ==
    /\ other.callPc = "awaiting"
    /\ other' = [ other EXCEPT !.callPc = "returned", !.response = [ status |-> << "2", "0", "0" >> ] ]
    /\ UNCHANGED << tool, params, callPc, config, requests, error, response >>
    /\ UNCHANGED << compressVars, startupVars, toolIdVars >>

\* the request of the second call rejects
OtherHttpFailure ==
    /\ other.callPc = "awaiting"
    /\ \E axiosError \in Failures :
           other' = [ other EXCEPT !.callPc = "failed", !.response = axiosError,
                                   !.error = apiErrorOf(axiosError) ]
    /\ UNCHANGED << tool, params, callPc, config, requests, error, response >>
    /\ UNCHANGED << compressVars, startupVars, toolIdVars >>

ConcurrentNext ==
    \/ ExecuteApiCall \/ HttpSuccess \/ HttpFailure
    \/ OtherExecuteApiCall \/ OtherHttpSuccess \/ OtherHttpFailure

SpecConcurrent == ConcurrentInit /\ [][ConcurrentNext]_vars

\* the request a call with these entries builds when it runs alone
requestAlone(entries) == bindParams(tool, entries, 1, initialConfig(tool)).config

\* C17: no step of executeApiCall changes the tool descriptor or the
\* registry, and in every interleaving of two calls on the same descriptor
\* each call that passed binding sent the request it builds when run alone.
C17_DescriptorUnchanged ==
    /\ [][tool' = tool /\ tools' = tools]_vars
    /\ []( /\ callPc \in { "awaiting", "returned" } =>
                  /\ config = requestAlone(params)
                  /\ \E i \in DOMAIN requests : requests[i] = config
           /\ other.callPc \in { "awaiting", "returned" } =>
                  /\ other.config = requestAlone(other.params)
                  /\ \E i \in DOMAIN requests : requests[i] = other.config )

\* C17 witness: both calls are awaiting their responses after binding
\* different values into the same path template, the second call first.
C17_Witness ==
    /\ tool.path = << "/", "u", "/", "{", "i", "d", "}" >>
    /\ callPc = "awaiting"
    /\ other.callPc = "awaiting"
    /\ Len(requests) = 2
    /\ requests[1] = other.config
    /\ requests[2] = config
    /\ config.url = << "/", "u", "/", "4", "2" >>
    /\ other.config.url = << "/", "u", "/", "a", "%", "2", "F", "b" >>

-----------------------------------------------------------------------------
\* Claims about the undefined values of a call, checked under SpecDispatch.

\* the supplied entries with the value undefined whose name the two lookups
\* of the loop find, Object.prototype names included
undefinedEntries ==
    { i \in DOMAIN params :
        /\ params[i][2] = Undefined
        /\ ( params[i][1] \in DOMAIN tool.inputSchema.properties
             \/ params[i][1] \in ObjectPrototypeKeys )
        /\ ( params[i][1] \in DOMAIN tool.params \/ params[i][1] \in ObjectPrototypeKeys ) }

\* the entries among them whose name is declared in both tables
declaredUndefinedEntries ==
    { i \in undefinedEntries :
        /\ params[i][1] \in DOMAIN tool.inputSchema.properties
        /\ params[i][1] \in DOMAIN tool.params }

====
